---- MODULE Spec2Model ----
(***************************************************************************)
(* Traffic simulator: congestion-aware routing on a grid city.             *)
(*                                                                         *)
(* Model of src/pathfinding.py (congestion map, cost grid, dijkstra,       *)
(* motion), src/cars.py (create_cars) and src/simulation.py                *)
(* (run_simulation, spawn_rush_hour_cars, log_snapshot).                   *)
(*                                                                         *)
(* Costs are floats that are multiples of 0.5 in the source; the model     *)
(* counts them in half units (Road 1.0 -> 2, Highway 0.5 -> 1,             *)
(* TrafficLight 1.5 -> 3, one vehicle 0.5 -> 1), which is exact.           *)
(* np.inf is the value np_inf, with the IEEE rules for + and <.            *)
(* Cells are <<row, col>>, 0-based as in the source; a grid is a sequence  *)
(* of rows.                                                                *)
(***************************************************************************)
EXTENDS Integers, Sequences, FiniteSets, TLC

\* ---------------------------------------------------------------- bounds
\* Run parameters, scaled down from the shipped values (100, 30, 100, 5, 20).
NUM_CARS == 2
RUSH_HOUR_EXTRA == 1
MAX_TICKS == 4
REPATH_EVERY == 2
RUSH_HOUR == 1
\* Largest congestion count drawn for a cell in the planner specification.
MaxCongestion == 1

\* ------------------------------------------------------------ cell kinds
ROAD == 0
BUILDING == 1
HIGHWAY == 2
TRAFFIC_LIGHT == 3

\* np.inf
np_inf == -1

IsInf(a) == a = np_inf

\* a + b on floats with infinity
FAdd(a, b) == IF IsInf(a) \/ IsInf(b) THEN np_inf ELSE a + b

\* a < b on floats with infinity
FLess(a, b) == IF IsInf(a) THEN FALSE ELSE IF IsInf(b) THEN TRUE ELSE a < b

Abs(n) == IF n < 0 THEN -n ELSE n

\* ---------------------------------------------------------------- grids
Shape(g) == Len(g)

Cells(size) == (0 .. size - 1) \X (0 .. size - 1)

At(g, r, c) == g[r + 1][c + 1]

\* The cities the grid generator may hand over (an unknown seed): small
\* grids with a route choice, a long corridor, and an isolated cell.
CityChoice == << <<ROAD, HIGHWAY>>,
                 <<TRAFFIC_LIGHT, ROAD>> >>

CityCorridor == << <<ROAD, BUILDING, BUILDING>>,
                   <<ROAD, BUILDING, BUILDING>>,
                   <<HIGHWAY, ROAD, BUILDING>> >>

CityIsland == << <<ROAD, ROAD, BUILDING>>,
                 <<BUILDING, BUILDING, BUILDING>>,
                 <<BUILDING, BUILDING, ROAD>> >>

Cities == {CityChoice, CityCorridor, CityIsland}

\* Half-unit base costs of BASE_COSTS.
BASE_COSTS(kind) ==
    CASE kind = ROAD -> 2
      [] kind = HIGHWAY -> 1
      [] kind = TRAFFIC_LIGHT -> 3
      [] kind = BUILDING -> np_inf

\* Mutant: the congestion penalty is not added.
build_cost_grid_no_penalty(g, congestion) ==
    [i \in 1 .. Shape(g) |-> [j \in 1 .. Shape(g) |-> BASE_COSTS(g[i][j])]]

\* Mutant: a Building costs what a Road costs.
build_cost_grid_buildings_open(g, congestion) ==
    [i \in 1 .. Shape(g) |-> [j \in 1 .. Shape(g) |->
        IF g[i][j] = BUILDING THEN BASE_COSTS(ROAD) + congestion[i][j]
        ELSE FAdd(BASE_COSTS(g[i][j]), congestion[i][j])]]

\* build_cost_grid: base cost, plus the congestion penalty, Buildings
\* pinned to infinity last.
build_cost_grid(g, congestion) ==
    LET size == Shape(g)
        base == [i \in 1 .. size |-> [j \in 1 .. size |-> BASE_COSTS(g[i][j])]]
        summed == [i \in 1 .. size |-> [j \in 1 .. size |->
                      FAdd(base[i][j], congestion[i][j])]]
    IN  [i \in 1 .. size |-> [j \in 1 .. size |->
            IF g[i][j] = BUILDING THEN np_inf ELSE summed[i][j]]]

\* Number of indices of the sequence s that satisfy the mask.
RECURSIVE CountAt(_, _, _, _)
CountAt(s, i, r, c) ==
    IF i > Len(s) THEN 0
    ELSE (IF s[i].status = "moving" /\ s[i].y = r /\ s[i].x = c THEN 1 ELSE 0)
         + CountAt(s, i + 1, r, c)

\* Mutant: every car is counted, whatever its status.
build_congestion_map_all_cars(cs, grid_size) ==
    [i \in 1 .. grid_size |-> [j \in 1 .. grid_size |->
        Cardinality({k \in 1 .. Len(cs) : cs[k].y = i - 1 /\ cs[k].x = j - 1})]]

\* build_congestion_map: moving cars per cell.
build_congestion_map(cs, grid_size) ==
    [i \in 1 .. grid_size |-> [j \in 1 .. grid_size |->
        CountAt(cs, 1, i - 1, j - 1)]]

\* ------------------------------------------------------------- dijkstra
\* heapq order on (cost, row, col) tuples.
TupleLE(e, f) ==
    \/ e[1] < f[1]
    \/ e[1] = f[1] /\ e[2] < f[2]
    \/ e[1] = f[1] /\ e[2] = f[2] /\ e[3] <= f[3]

\* Mutant: the heap hands out its largest entry.
HeapMin_largest(heap) == CHOOSE e \in heap : \A f \in heap : TupleLE(f, e)

HeapMin(heap) == CHOOSE e \in heap : \A f \in heap : TupleLE(e, f)

\* Mutant: the last direction (right) is never tried.
directions_without_right == << <<-1, 0>>, <<1, 0>>, <<0, -1>> >>

\* Mutant: the last direction is a diagonal step.
directions_diagonal == << <<-1, 0>>, <<1, 0>>, <<0, -1>>, <<1, 1>> >>

directions == << <<-1, 0>>, <<1, 0>>, <<0, -1>>, <<0, 1>> >>

\* The for loop over the four directions, from direction i on.
RECURSIVE Relax(_, _, _, _, _, _)
Relax(cost_grid, st, r, c, current_cost, i) ==
    IF i > Len(directions) THEN st
    ELSE
      LET nr == r + directions[i][1]
          nc == c + directions[i][2]
          rows == Shape(cost_grid)
      IN  IF ~(0 <= nr /\ nr < rows /\ 0 <= nc /\ nc < rows)
          THEN Relax(cost_grid, st, r, c, current_cost, i + 1)
          ELSE IF <<nr, nc>> \in st.visited \/ IsInf(At(cost_grid, nr, nc))
          THEN Relax(cost_grid, st, r, c, current_cost, i + 1)
          ELSE
            LET new_cost == FAdd(current_cost, At(cost_grid, nr, nc))
            IN  IF FLess(new_cost, st.dist[<<nr, nc>>])
                THEN Relax(cost_grid,
                           [st EXCEPT !.dist[<<nr, nc>>] = new_cost,
                                      !.prev[<<nr, nc>>] = <<r, c>>,
                                      !.heap = @ \cup {<<new_cost, nr, nc>>}],
                           r, c, current_cost, i + 1)
                ELSE Relax(cost_grid, st, r, c, current_cost, i + 1)

\* The while loop over the heap.
RECURSIVE DijkstraLoop(_, _, _)
DijkstraLoop(cost_grid, end, st) ==
    IF st.heap = {} THEN st
    ELSE
      LET e == HeapMin(st.heap)
          popped == [st EXCEPT !.heap = @ \ {e}]
          cell == <<e[2], e[3]>>
      IN  IF cell \in st.visited THEN DijkstraLoop(cost_grid, end, popped)
          ELSE
            LET marked == [popped EXCEPT !.visited = @ \cup {cell}]
            IN  IF cell = end THEN marked
                ELSE DijkstraLoop(cost_grid, end,
                                  Relax(cost_grid, marked, e[2], e[3], e[1], 1))

\* The walk backwards through prev, giving the path from start to cell.
RECURSIVE WalkBack(_, _, _)
WalkBack(prev, start, cell) ==
    IF cell = start THEN <<start>>
    ELSE Append(WalkBack(prev, start, prev[cell]), cell)

\* Mutant: the distance of the start cell is left at infinity.
dijkstra_start_unset(cost_grid, start, end) ==
    LET rows == Shape(cost_grid)
        st0 == [visited |-> {},
                dist |-> [p \in Cells(rows) |-> np_inf],
                prev |-> [p \in Cells(rows) |-> <<-1, -1>>],
                heap |-> {<<0, start[1], start[2]>>}]
        st == DijkstraLoop(cost_grid, end, st0)
    IN  IF IsInf(st.dist[end]) THEN <<>>
        ELSE WalkBack(st.prev, start, end)

dijkstra(cost_grid, start, end) ==
    LET rows == Shape(cost_grid)
        st0 == [visited |-> {},
                dist |-> [p \in Cells(rows) |-> IF p = start THEN 0 ELSE np_inf],
                prev |-> [p \in Cells(rows) |-> <<-1, -1>>],
                heap |-> {<<0, start[1], start[2]>>}]
        st == DijkstraLoop(cost_grid, end, st0)
    IN  IF IsInf(st.dist[end]) THEN <<>>
        ELSE WalkBack(st.prev, start, end)

\* ------------------------------------------------------------- vehicles
Manhattan(c) == Abs(c.dest_x - c.x) + Abs(c.dest_y - c.y)

\* get_valid_road_cells: every cell that is not a Building.
get_valid_road_cells(g) == {p \in Cells(Shape(g)) : At(g, p[1], p[2]) # BUILDING}

\* The random draws of one create_cars call: a start and a destination
\* cell per requested car, with replacement.
Draws(g, num_cars) ==
    [1 .. num_cars -> get_valid_road_cells(g) \X get_valid_road_cells(g)]

\* Mutant: cars on their destination are kept.
create_cars_keep_all(g, draws) ==
    [i \in 1 .. Len(draws) |->
        LET start == draws[i][1]
            dest == draws[i][2]
        IN  [car_id |-> i - 1,
             x |-> start[2], y |-> start[1],
             dest_x |-> dest[2], dest_y |-> dest[1],
             speed |-> IF At(g, start[1], start[2]) = HIGHWAY THEN 2 ELSE 1,
             status |-> "moving",
             ticks_traveled |-> 0,
             distance_to_dest |-> Abs(dest[2] - start[2]) + Abs(dest[1] - start[1])]]

HasDistance(c) == c.distance_to_dest > 0

\* create_cars: the DataFrame built from the draws, the distance computed,
\* cars on their destination dropped, ids re-assigned from the new index.
create_cars(g, draws) ==
    LET raw == [i \in 1 .. Len(draws) |->
                  LET start == draws[i][1]
                      dest == draws[i][2]
                      c == [car_id |-> i - 1,
                            x |-> start[2], y |-> start[1],
                            dest_x |-> dest[2], dest_y |-> dest[1],
                            speed |-> IF At(g, start[1], start[2]) = HIGHWAY
                                      THEN 2 ELSE 1,
                            status |-> "moving",
                            ticks_traveled |-> 0,
                            distance_to_dest |-> 0]
                  IN  [c EXCEPT !.distance_to_dest = Manhattan(c)]]
        kept == SelectSeq(raw, HasDistance)
    IN  [i \in 1 .. Len(kept) |-> [kept[i] EXCEPT !.car_id = i - 1]]

\* cars['car_id'].max(); the maximum of an empty column is NaN.
nan == -2

RECURSIVE MaxCarId(_, _)
MaxCarId(cs, i) ==
    IF cs = <<>> THEN nan
    ELSE IF i = Len(cs) THEN cs[i].car_id
    ELSE LET rest == MaxCarId(cs, i + 1)
         IN  IF cs[i].car_id > rest THEN cs[i].car_id ELSE rest

\* Mutant: the new cars keep the ids create_cars gave them.
spawn_rush_hour_cars_same_ids(cs, g, draws) == cs \o create_cars(g, draws)

\* Mutant: after the concatenation the status column is set for all rows.
spawn_rush_hour_cars_reset_status(cs, g, draws) ==
    LET new_cars == create_cars(g, draws)
        top == MaxCarId(cs, 1)
        renumbered == [i \in 1 .. Len(new_cars) |->
                         [new_cars[i] EXCEPT !.car_id =
                             IF top = nan THEN nan ELSE @ + top + 1]]
        combined == cs \o renumbered
    IN  [i \in 1 .. Len(combined) |-> [combined[i] EXCEPT !.status = "moving"]]

\* Mutant: the new cars replace the population instead of joining it.
spawn_rush_hour_cars_replace(cs, g, draws) ==
    LET new_cars == create_cars(g, draws)
        top == MaxCarId(cs, 1)
    IN  [i \in 1 .. Len(new_cars) |->
            [new_cars[i] EXCEPT !.car_id = IF top = nan THEN nan ELSE @ + top + 1]]

\* spawn_rush_hour_cars, with the draws of its create_cars call: the new
\* cars get ids after the largest existing id and are appended.
spawn_rush_hour_cars(cs, g, draws) ==
    LET new_cars == create_cars(g, draws)
        top == MaxCarId(cs, 1)
        renumbered == [i \in 1 .. Len(new_cars) |->
                         [new_cars[i] EXCEPT !.car_id =
                             IF top = nan THEN nan ELSE @ + top + 1]]
    IN  cs \o renumbered

\* Draws whose start cell is the destination cell.
OnDestination(draws) ==
    Cardinality({i \in 1 .. Len(draws) : draws[i][1] = draws[i][2]})

\* --------------------------------------------------------------- motion
\* First index i of path with path[i] = current_pos and a successor, or 0.
RECURSIVE FirstIndex(_, _, _)
FirstIndex(path, current_pos, i) ==
    IF i > Len(path) THEN 0
    ELSE IF path[i] = current_pos /\ i + 1 <= Len(path) THEN i
    ELSE FirstIndex(path, current_pos, i + 1)

\* Mutant: the step is always the second cell of the path.
get_next_step_second(path, current_pos) ==
    IF Len(path) < 2 THEN current_pos ELSE path[2]

\* Mutant: a position that is not on the path is kept.
get_next_step_stay_if_lost(path, current_pos) ==
    IF Len(path) < 2 THEN current_pos
    ELSE LET i == FirstIndex(path, current_pos, 1)
         IN  IF i # 0 THEN path[i + 1] ELSE current_pos

get_next_step(path, current_pos) ==
    IF Len(path) < 2 THEN current_pos
    ELSE LET i == FirstIndex(path, current_pos, 1)
         IN  IF i # 0 THEN path[i + 1] ELSE path[2]

\* compute_all_paths from row i on: a fresh dictionary, one dijkstra call
\* per moving car that is not on its destination, empty paths not stored.
\* Mutant: the loop is left at the first car for which no path is found.
RECURSIVE PathsFrom_stop_at_gap(_, _, _, _)
PathsFrom_stop_at_gap(cs, cost_grid, i, acc) ==
    IF i > Len(cs) THEN acc
    ELSE
      LET car == cs[i]
          start == <<car.y, car.x>>
          end == <<car.dest_y, car.dest_x>>
      IN  IF car.status # "moving" \/ start = end
          THEN PathsFrom_stop_at_gap(cs, cost_grid, i + 1, acc)
          ELSE
            LET path == dijkstra(cost_grid, start, end)
            IN  IF path = <<>> THEN acc
                ELSE PathsFrom_stop_at_gap(cs, cost_grid, i + 1,
                       [k \in DOMAIN acc \cup {car.car_id} |->
                          IF k = car.car_id THEN path ELSE acc[k]])

RECURSIVE PathsFrom(_, _, _, _)
PathsFrom(cs, cost_grid, i, acc) ==
    IF i > Len(cs) THEN acc
    ELSE
      LET car == cs[i]
          start == <<car.y, car.x>>
          end == <<car.dest_y, car.dest_x>>
      IN  IF car.status # "moving" \/ start = end
          THEN PathsFrom(cs, cost_grid, i + 1, acc)
          ELSE
            LET path == dijkstra(cost_grid, start, end)
            IN  IF path = <<>> THEN PathsFrom(cs, cost_grid, i + 1, acc)
                ELSE PathsFrom(cs, cost_grid, i + 1,
                       [k \in DOMAIN acc \cup {car.car_id} |->
                          IF k = car.car_id THEN path ELSE acc[k]])

\* Mutant: a car whose search found nothing gets an empty path stored.
compute_all_paths_store_empty(cs, g, congestion) ==
    LET found == PathsFrom(cs, build_cost_grid(g, congestion), 1, <<>>)
        asked == {cs[i].car_id : i \in {j \in 1 .. Len(cs) :
                     /\ cs[j].status = "moving"
                     /\ <<cs[j].y, cs[j].x>> # <<cs[j].dest_y, cs[j].dest_x>>}}
    IN  [k \in asked |-> IF k \in DOMAIN found THEN found[k] ELSE <<>>]

compute_all_paths(cs, g, congestion) ==
    PathsFrom(cs, build_cost_grid(g, congestion), 1, <<>>)

\* Mutant: the distance is measured before the car is relocated.
MoveCar_stale_distance(car, ps) ==
    IF car.status # "moving" THEN car
    ELSE
      LET next_step == IF car.car_id \in DOMAIN ps
                       THEN get_next_step(ps[car.car_id], <<car.y, car.x>>)
                       ELSE <<car.y, car.x>>
          measured == [car EXCEPT !.distance_to_dest = Manhattan(car),
                                  !.ticks_traveled = @ + 1]
          moved == [measured EXCEPT !.y = next_step[1], !.x = next_step[2]]
      IN  [moved EXCEPT !.status =
              IF moved.distance_to_dest = 0 THEN "arrived" ELSE @]

\* Mutant: arrival is decided from the distance before the move.
MoveCar_late_arrival(car, ps) ==
    IF car.status # "moving" THEN car
    ELSE
      LET next_step == IF car.car_id \in DOMAIN ps
                       THEN get_next_step(ps[car.car_id], <<car.y, car.x>>)
                       ELSE <<car.y, car.x>>
          moved == [car EXCEPT !.y = next_step[1], !.x = next_step[2],
                               !.ticks_traveled = @ + 1]
          measured == [moved EXCEPT !.distance_to_dest = Manhattan(moved)]
      IN  [measured EXCEPT !.status =
              IF car.distance_to_dest = 0 THEN "arrived" ELSE @]

\* Mutant: a car without a cache entry is skipped altogether.
MoveCar_skip_uncached(car, ps) ==
    IF car.status # "moving" \/ car.car_id \notin DOMAIN ps THEN car
    ELSE
      LET next_step == get_next_step(ps[car.car_id], <<car.y, car.x>>)
          moved == [car EXCEPT !.y = next_step[1], !.x = next_step[2],
                               !.ticks_traveled = @ + 1]
          measured == [moved EXCEPT !.distance_to_dest = Manhattan(moved)]
      IN  [measured EXCEPT !.status =
              IF measured.distance_to_dest = 0 THEN "arrived" ELSE @]

\* Mutant: the tick counter of an Arrived car goes on counting.
MoveCar_count_arrived(car, ps) ==
    IF car.status # "moving" THEN [car EXCEPT !.ticks_traveled = @ + 1]
    ELSE
      LET next_step == IF car.car_id \in DOMAIN ps
                       THEN get_next_step(ps[car.car_id], <<car.y, car.x>>)
                       ELSE <<car.y, car.x>>
          moved == [car EXCEPT !.y = next_step[1], !.x = next_step[2],
                               !.ticks_traveled = @ + 1]
          measured == [moved EXCEPT !.distance_to_dest = Manhattan(moved)]
      IN  [measured EXCEPT !.status =
              IF measured.distance_to_dest = 0 THEN "arrived" ELSE @]

\* The body of move_cars_with_paths for one row.
MoveCar(car, ps) ==
    IF car.status # "moving" THEN car
    ELSE
      LET next_step == IF car.car_id \in DOMAIN ps
                       THEN get_next_step(ps[car.car_id], <<car.y, car.x>>)
                       ELSE <<car.y, car.x>>
          moved == [car EXCEPT !.y = next_step[1], !.x = next_step[2],
                               !.ticks_traveled = @ + 1]
          measured == [moved EXCEPT !.distance_to_dest = Manhattan(moved)]
      IN  [measured EXCEPT !.status =
              IF measured.distance_to_dest = 0 THEN "arrived" ELSE @]

IsMoving(car) == car.status = "moving"

\* Mutant: only the rows selected by the moving mask are returned.
move_cars_with_paths_moving_only(cs, ps, g) ==
    LET kept == SelectSeq(cs, IsMoving)
    IN  [i \in 1 .. Len(kept) |-> MoveCar(kept[i], ps)]

\* Mutant: a car does not enter a cell on which another car stands.
move_cars_with_paths_blocking(cs, ps, g) ==
    [i \in 1 .. Len(cs) |->
        LET moved == MoveCar(cs[i], ps)
        IN  IF \E j \in 1 .. Len(cs) :
                  j # i /\ cs[j].x = moved.x /\ cs[j].y = moved.y
            THEN MoveCar(cs[i], <<>>)
            ELSE moved]

\* move_cars_with_paths: every new position is computed from the positions
\* before the call, then all rows are written back together.
move_cars_with_paths(cs, ps, g) == [i \in 1 .. Len(cs) |-> MoveCar(cs[i], ps)]

\* Mutant: only the cars still moving are logged.
log_snapshot_moving_only(cs, congestion, t) ==
    LET kept == SelectSeq(cs, IsMoving)
    IN  [i \in 1 .. Len(kept) |->
            [car_id |-> kept[i].car_id, x |-> kept[i].x, y |-> kept[i].y,
             status |-> kept[i].status,
             ticks_traveled |-> kept[i].ticks_traveled,
             distance_to_dest |-> kept[i].distance_to_dest,
             speed |-> kept[i].speed,
             tick |-> t,
             local_congestion |-> At(congestion, kept[i].y, kept[i].x)]]

\* Mutant: the congestion column is counted from the cars as they are logged.
log_snapshot_recounted(cs, congestion, t) ==
    [i \in 1 .. Len(cs) |->
        [car_id |-> cs[i].car_id, x |-> cs[i].x, y |-> cs[i].y,
         status |-> cs[i].status, ticks_traveled |-> cs[i].ticks_traveled,
         distance_to_dest |-> cs[i].distance_to_dest, speed |-> cs[i].speed,
         tick |-> t,
         local_congestion |->
            At(build_congestion_map(cs, Len(congestion)), cs[i].y, cs[i].x)]]

\* log_snapshot: one row per car, with the congestion map's value at the
\* car's cell.
log_snapshot(cs, congestion, t) ==
    [i \in 1 .. Len(cs) |->
        [car_id |-> cs[i].car_id, x |-> cs[i].x, y |-> cs[i].y,
         status |-> cs[i].status, ticks_traveled |-> cs[i].ticks_traveled,
         distance_to_dest |-> cs[i].distance_to_dest, speed |-> cs[i].speed,
         tick |-> t,
         local_congestion |-> At(congestion, cs[i].y, cs[i].x)]]

RECURSIVE CountStatus(_, _, _)
CountStatus(cs, status, i) ==
    IF i > Len(cs) THEN 0
    ELSE (IF cs[i].status = status THEN 1 ELSE 0) + CountStatus(cs, status, i + 1)

\* (cars['status'] == 'moving').sum()
NumMoving(cs) == CountStatus(cs, "moving", 1)

NumArrived(cs) == CountStatus(cs, "arrived", 1)

\* ---------------------------------------------------------------- state
VARIABLES
    grid,            \* the city grid, never written after generation
    rush_hour_tick,  \* RUSH_HOUR_TICKS[0], the configured trigger tick
    cars,            \* the cars DataFrame: a sequence of rows
    paths,           \* path cache: car_id -> path
    congestion_map,  \* the congestion map of the current tick
    tick,            \* loop variable of run_simulation
    pc,              \* next statement of the loop body, "done", or the
                     \* planner's "plan" | "planned"
    history_frames,  \* one snapshot per executed tick
    dropped,         \* draws of the latest create_cars call that were on
                     \* their destination
    entered,         \* cars handed over by create_cars so far
    rush_fired,      \* calls of spawn_rush_hour_cars so far
    runs,            \* calls of run_simulation so far
    q_start,         \* planner query: start cell
    q_end,           \* planner query: end cell
    q_path           \* planner query: the path dijkstra returned

vars == <<grid, rush_hour_tick, cars, paths, congestion_map, tick, pc,
          history_frames, dropped, entered, rush_fired, runs,
          q_start, q_end, q_path>>

GRID_SIZE == Shape(grid)

Zeros(size) == [i \in 1 .. size |-> [j \in 1 .. size |-> 0]]

\* Trigger ticks tried: one that is not a repath tick and one that may be.
RushHourChoices == {RUSH_HOUR, RUSH_HOUR + 1}

\* __main__ of simulation.py: a city, the initial cars, run_simulation
\* entered with an empty path cache and no history.
Init ==
    /\ grid \in Cities
    /\ rush_hour_tick \in RushHourChoices
    /\ \E draws \in Draws(grid, NUM_CARS) :
          /\ cars = create_cars(grid, draws)
          /\ dropped = OnDestination(draws)
    /\ paths = <<>>
    /\ congestion_map = Zeros(Shape(grid))
    /\ tick = 0
    /\ pc = IF MAX_TICKS > 0 THEN "congestion" ELSE "done"
    /\ history_frames = <<>>
    /\ entered = Len(cars)
    /\ rush_fired = 0
    /\ runs = 1
    /\ q_start = <<0, 0>>
    /\ q_end = <<0, 0>>
    /\ q_path = <<>>

\* congestion_map = build_congestion_map(cars, GRID_SIZE)
BuildCongestion ==
    /\ pc = "congestion"
    /\ congestion_map' = build_congestion_map(cars, GRID_SIZE)
    /\ pc' = "rush"
    /\ UNCHANGED <<grid, rush_hour_tick, cars, paths, tick, history_frames,
                   dropped, entered, rush_fired, runs, q_start, q_end, q_path>>

\* Mutant: rush hour is due at every tick from the trigger tick on.
RushHourDue_from(t, trigger) == t >= trigger

\* The rush-hour test of run_simulation.
RushHourDue(t, trigger) == t = trigger

\* Mutant: the congestion map is built again after the injection.
RushHour_then_congestion ==
    /\ pc = "rush"
    /\ IF RushHourDue(tick, rush_hour_tick)
       THEN \E draws \in Draws(grid, RUSH_HOUR_EXTRA) :
              /\ cars' = spawn_rush_hour_cars(cars, grid, draws)
              /\ dropped' = OnDestination(draws)
              /\ entered' = entered + Len(create_cars(grid, draws))
              /\ rush_fired' = rush_fired + 1
       ELSE UNCHANGED <<cars, dropped, entered, rush_fired>>
    /\ congestion_map' = build_congestion_map(cars', GRID_SIZE)
    /\ pc' = "repath"
    /\ UNCHANGED <<grid, rush_hour_tick, paths, tick,
                   history_frames, runs, q_start, q_end, q_path>>

\* if tick == RUSH_HOUR_TICKS[0]: cars = spawn_rush_hour_cars(cars, grid)
RushHour ==
    /\ pc = "rush"
    /\ IF RushHourDue(tick, rush_hour_tick)
       THEN \E draws \in Draws(grid, RUSH_HOUR_EXTRA) :
              /\ cars' = spawn_rush_hour_cars(cars, grid, draws)
              /\ dropped' = OnDestination(draws)
              /\ entered' = entered + Len(create_cars(grid, draws))
              /\ rush_fired' = rush_fired + 1
       ELSE UNCHANGED <<cars, dropped, entered, rush_fired>>
    /\ pc' = "repath"
    /\ UNCHANGED <<grid, rush_hour_tick, paths, congestion_map, tick,
                   history_frames, runs, q_start, q_end, q_path>>

\* Mutant: every tick is a repath tick.
RepathDue_every_tick(t) == t >= 0

\* The repath test of run_simulation.
RepathDue(t) == t % REPATH_EVERY = 0

\* Mutant: the repath sees the collection as it was before the injection.
Repath_before_injection ==
    /\ pc = "repath"
    /\ paths' = IF RepathDue(tick)
                THEN compute_all_paths(
                        SubSeq(cars, 1,
                               Len(cars) - (IF tick = rush_hour_tick
                                            THEN RUSH_HOUR_EXTRA - dropped
                                            ELSE 0)),
                        grid, congestion_map)
                ELSE paths
    /\ pc' = "move"
    /\ UNCHANGED <<grid, rush_hour_tick, cars, congestion_map, tick,
                   history_frames, dropped, entered, rush_fired, runs,
                   q_start, q_end, q_path>>

\* if tick % REPATH_EVERY == 0: paths = compute_all_paths(...)
Repath ==
    /\ pc = "repath"
    /\ paths' = IF RepathDue(tick)
                THEN compute_all_paths(cars, grid, congestion_map) ELSE paths
    /\ pc' = "move"
    /\ UNCHANGED <<grid, rush_hour_tick, cars, congestion_map, tick,
                   history_frames, dropped, entered, rush_fired, runs,
                   q_start, q_end, q_path>>

\* cars = move_cars_with_paths(cars, paths, grid)
Move ==
    /\ pc = "move"
    /\ cars' = move_cars_with_paths(cars, paths, grid)
    /\ pc' = "log"
    /\ UNCHANGED <<grid, rush_hour_tick, paths, congestion_map, tick,
                   history_frames, dropped, entered, rush_fired, runs,
                   q_start, q_end, q_path>>

\* Mutant: the loop has no early exit.
LoopEnds_no_break(cs, t) == t + 1 >= MAX_TICKS

\* Mutant: the early exit waits for a vehicle to have arrived.
LoopEnds_needs_arrival(cs, t) ==
    (NumMoving(cs) = 0 /\ NumArrived(cs) > 0) \/ t + 1 >= MAX_TICKS

\* The end of an iteration: break when nobody is moving, leave the loop
\* when range(max_ticks) is exhausted.
LoopEnds(cs, t) == NumMoving(cs) = 0 \/ t + 1 >= MAX_TICKS

\* The snapshot is appended to the history, then the loop ends or goes on
\* to the next tick.
Log ==
    /\ pc = "log"
    /\ history_frames' =
          Append(history_frames, log_snapshot(cars, congestion_map, tick))
    /\ pc' = IF LoopEnds(cars, tick) THEN "done" ELSE "congestion"
    /\ tick' = IF LoopEnds(cars, tick) THEN tick ELSE tick + 1
    /\ UNCHANGED <<grid, rush_hour_tick, cars, paths, congestion_map,
                   dropped, entered, rush_fired, runs, q_start, q_end, q_path>>

Tick == BuildCongestion \/ RushHour \/ Repath \/ Move \/ Log

Next == Tick

Spec == Init /\ [][Next]_vars

\* run_simulation called again on the population it returned (a resumed
\* run): the loop starts over at tick 0 with a fresh cache and history.
MaxRuns == 2

Reenter ==
    /\ pc = "done"
    /\ runs < MaxRuns
    /\ MAX_TICKS > 0
    /\ runs' = runs + 1
    /\ tick' = 0
    /\ pc' = "congestion"
    /\ paths' = <<>>
    /\ history_frames' = <<>>
    /\ UNCHANGED <<grid, rush_hour_tick, cars, congestion_map, dropped,
                   entered, rush_fired, q_start, q_end, q_path>>

NextReentrant == Tick \/ Reenter

SpecReentrant == Init /\ [][NextReentrant]_vars

\* ------------------------------------------------- planner on its own
AllRoad == << <<ROAD, ROAD, ROAD>>, <<ROAD, ROAD, ROAD>>, <<ROAD, ROAD, ROAD>> >>

\* Every 3x3 grid of Roads and Buildings.
BlockGrids == [1 .. 3 -> [1 .. 3 -> {ROAD, BUILDING}]]

GridDetour == << <<ROAD, TRAFFIC_LIGHT, ROAD>>,
                 <<HIGHWAY, HIGHWAY, HIGHWAY>>,
                 <<ROAD, BUILDING, ROAD>> >>

MixedGrids == Cities \cup {GridDetour, AllRoad}

\* The 5x5 all-Road grid.
AllRoad5 == [i \in 1 .. 5 |-> [j \in 1 .. 5 |-> ROAD]]

\* Congestion maps with at most one occupied cell.
HotMaps(size) ==
    {Zeros(size)} \cup
    {[i \in 1 .. size |-> [j \in 1 .. size |->
         IF <<i - 1, j - 1>> = h THEN k ELSE 0]] :
       h \in Cells(size), k \in 1 .. MaxCongestion}

PlannerInputs ==
    {<<g, Zeros(3)>> : g \in BlockGrids} \cup
    {<<AllRoad5, Zeros(5)>>} \cup
    UNION {{<<g, m>> : m \in HotMaps(Shape(g))} : g \in MixedGrids}

InitPlanner ==
    /\ \E in \in PlannerInputs : grid = in[1] /\ congestion_map = in[2]
    /\ q_start \in Cells(Shape(grid))
    /\ q_end \in Cells(Shape(grid))
    /\ q_path = <<>>
    /\ pc = "plan"
    /\ rush_hour_tick = RUSH_HOUR
    /\ cars = <<>>
    /\ paths = <<>>
    /\ tick = 0
    /\ history_frames = <<>>
    /\ dropped = 0
    /\ entered = 0
    /\ rush_fired = 0
    /\ runs = 0

\* One call of dijkstra on the cost grid of the drawn city and congestion.
Plan ==
    /\ pc = "plan"
    /\ q_path' = dijkstra(build_cost_grid(grid, congestion_map), q_start, q_end)
    /\ pc' = "planned"
    /\ UNCHANGED <<grid, rush_hour_tick, cars, paths, congestion_map, tick,
                   history_frames, dropped, entered, rush_fired, runs,
                   q_start, q_end>>

NextPlanner == Plan

SpecPlanner == InitPlanner /\ [][NextPlanner]_vars

\* ------------------------------------ cities with a cut-off district
\* A city whose isolated cell lies beside a street that ends on a Highway.
CityIslandStreet == << <<ROAD, BUILDING, BUILDING>>,
                       <<HIGHWAY, BUILDING, ROAD>>,
                       <<BUILDING, BUILDING, BUILDING>> >>

Islands == {CityIsland, CityIslandStreet}

\* __main__ of simulation.py on a city in which some cells cannot be
\* reached from others.
InitIslands ==
    /\ grid \in Islands
    /\ rush_hour_tick \in RushHourChoices
    /\ \E draws \in Draws(grid, NUM_CARS) :
          /\ cars = create_cars(grid, draws)
          /\ dropped = OnDestination(draws)
    /\ paths = <<>>
    /\ congestion_map = Zeros(Shape(grid))
    /\ tick = 0
    /\ pc = IF MAX_TICKS > 0 THEN "congestion" ELSE "done"
    /\ history_frames = <<>>
    /\ entered = Len(cars)
    /\ rush_fired = 0
    /\ runs = 1
    /\ q_start = <<0, 0>>
    /\ q_end = <<0, 0>>
    /\ q_path = <<>>

SpecIslands == InitIslands /\ [][Next]_vars

\* ------------------------------------------- a ring road with platoons
\* Cars of one platoon.
PlatoonSize == 3

\* A city whose streets form one ring of Highway cells around a Building.
CityRing == << <<HIGHWAY, HIGHWAY, HIGHWAY>>,
               <<HIGHWAY, BUILDING, HIGHWAY>>,
               <<HIGHWAY, HIGHWAY, HIGHWAY>> >>

\* k draws that came out alike: the same start and destination cell.
Platoon(start, dest, k) == [i \in 1 .. k |-> <<start, dest>>]

\* Draws of create_cars on the ring: one platoon in the top-left corner
\* bound three cells clockwise, one in the top-right corner bound three
\* cells counter-clockwise, each standing on the short way of the other.
PlatoonDraws(k) ==
    Platoon(<<0, 0>>, <<1, 2>>, k) \o Platoon(<<0, 2>>, <<1, 0>>, k)

\* __main__ of simulation.py on the ring with two platoons of one size.
InitRing ==
    /\ grid = CityRing
    /\ rush_hour_tick \in RushHourChoices
    /\ \E k \in 1 .. PlatoonSize :
          /\ cars = create_cars(grid, PlatoonDraws(k))
          /\ dropped = OnDestination(PlatoonDraws(k))
    /\ paths = <<>>
    /\ congestion_map = Zeros(Shape(grid))
    /\ tick = 0
    /\ pc = IF MAX_TICKS > 0 THEN "congestion" ELSE "done"
    /\ history_frames = <<>>
    /\ entered = Len(cars)
    /\ rush_fired = 0
    /\ runs = 1
    /\ q_start = <<0, 0>>
    /\ q_end = <<0, 0>>
    /\ q_path = <<>>

SpecRing == InitRing /\ [][Next]_vars

\* ------------------------------------- motion on a cached path, alone
\* Motion steps made before the drive is given up.
MaxSteps == 8

\* One car is created on a drawn grid and routed once by compute_all_paths
\* under a drawn congestion map; the cache is not touched afterwards.
InitDrive ==
    /\ \E in \in PlannerInputs : grid = in[1] /\ congestion_map = in[2]
    /\ \E draws \in Draws(grid, 1) :
          /\ cars = create_cars(grid, draws)
          /\ dropped = OnDestination(draws)
          /\ q_start = draws[1][1]
          /\ q_end = draws[1][2]
    /\ paths = compute_all_paths(cars, grid, congestion_map)
    /\ q_path = <<>>
    /\ pc = "drive"
    /\ tick = 0
    /\ rush_hour_tick = RUSH_HOUR
    /\ history_frames = <<>>
    /\ entered = Len(cars)
    /\ rush_fired = 0
    /\ runs = 0

\* cars = move_cars_with_paths(cars, paths, grid), with the same cache.
Drive ==
    /\ pc = "drive"
    /\ tick < MaxSteps
    /\ NumMoving(cars) > 0
    /\ cars' = move_cars_with_paths(cars, paths, grid)
    /\ tick' = tick + 1
    /\ UNCHANGED <<grid, rush_hour_tick, paths, congestion_map, pc,
                   history_frames, dropped, entered, rush_fired, runs,
                   q_start, q_end, q_path>>

NextDrive == Drive

SpecDrive == InitDrive /\ [][NextDrive]_vars

\* ---------------------------------- one motion step on any cached path
\* Longest path handed to the motion step.
MaxLen == 4

\* Any sequence of cells of the city up to MaxLen long, on the path of the
\* car or not, contiguous or not.
AnyPaths(size) == UNION {[1 .. n -> Cells(size)] : n \in 1 .. MaxLen}

\* One Moving car on the city without Buildings, and a cache that holds an
\* arbitrary path for it.
InitStep ==
    /\ grid = CityChoice
    /\ \E draws \in Draws(grid, 1) :
          /\ draws[1][1] # draws[1][2]
          /\ cars = create_cars(grid, draws)
          /\ q_start = draws[1][1]
          /\ q_end = draws[1][2]
    /\ \E path \in AnyPaths(Shape(grid)) :
          /\ paths = [id \in {cars[1].car_id} |-> path]
          /\ q_path = path
    /\ congestion_map = Zeros(Shape(grid))
    /\ pc = "step"
    /\ tick = 0
    /\ rush_hour_tick = RUSH_HOUR
    /\ history_frames = <<>>
    /\ dropped = 0
    /\ entered = 1
    /\ rush_fired = 0
    /\ runs = 0

\* cars = move_cars_with_paths(cars, paths, grid), once.
Step ==
    /\ pc = "step"
    /\ cars' = move_cars_with_paths(cars, paths, grid)
    /\ pc' = "stepped"
    /\ UNCHANGED <<grid, rush_hour_tick, paths, congestion_map, tick,
                   history_frames, dropped, entered, rush_fired, runs,
                   q_start, q_end, q_path>>

NextStep == Step

SpecStep == InitStep /\ [][NextStep]_vars

\* =============================================================== claims
Rows == 1 .. Len(cars)

\* The tick being executed has passed its rush-hour statement.
TriggerTickReached ==
    \/ tick > rush_hour_tick
    \/ tick = rush_hour_tick /\ pc \notin {"congestion", "rush"}

\* The state right after the rush-hour statement injected a batch.
JustInjected == pc = "repath" /\ tick = rush_hour_tick /\ rush_fired = 1

\* C1: every vehicle is Moving or Arrived, and the Moving and the Arrived
\* together are exactly the vehicles that entered so far: the initial ones
\* plus the injected ones, none lost and none duplicated.
C1_Conservation ==
    /\ \A i \in Rows : cars[i].status \in {"moving", "arrived"}
    /\ NumMoving(cars) + NumArrived(cars) = entered
    /\ Len(cars) = entered

\* C1 witness: after the motion step of a tick at or after the injection,
\* with a full batch injected and both statuses present.
C1_Witness ==
    /\ pc = "log"
    /\ rush_fired = 1 /\ dropped = 0
    /\ NumArrived(cars) > 0 /\ NumMoving(cars) > 0

\* C2: for every vehicle, in every state (at spawn, after a move, a stall
\* or an injection, and once Arrived), distance_to_dest is the Manhattan
\* distance between its position and its destination.
C2_DistanceIsManhattan ==
    \A i \in Rows : cars[i].distance_to_dest = Manhattan(cars[i])

\* C2 witness: after a motion step, an Arrived car next to a car that has
\* been through a step and is still Moving, the batch injected.
C2_Witness ==
    /\ pc = "log" /\ rush_fired = 1
    /\ \E i, j \in Rows :
          /\ cars[i].status = "arrived"
          /\ cars[j].status = "moving" /\ cars[j].ticks_traveled > 0

\* C3: in every step a row that is Arrived stays the same vehicle and stays
\* Arrived.
C3_ArrivedIsTerminal ==
    [][\A i \in Rows :
          cars[i].status = "arrived" =>
             /\ i <= Len(cars')
             /\ cars'[i].car_id = cars[i].car_id
             /\ cars'[i].status = "arrived"]_vars

\* C3 witness: a car that arrived before the trigger tick is still there
\* after the injection and after a later repathing cycle and motion step.
C3_Witness ==
    /\ pc = "log" /\ rush_fired = 1 /\ tick > 0 /\ RepathDue(tick)
    /\ \E i \in Rows :
          /\ cars[i].status = "arrived"
          /\ cars[i].ticks_traveled <= rush_hour_tick
          /\ cars[i].ticks_traveled <= tick

\* C4: a vehicle is Arrived exactly when it stands on its destination, and
\* exactly when its distance_to_dest is 0: no Moving vehicle rests on its
\* destination.
C4_ArrivedIffOnDestination ==
    \A i \in Rows :
       /\ cars[i].status = "arrived" <=>
             (cars[i].x = cars[i].dest_x /\ cars[i].y = cars[i].dest_y)
       /\ cars[i].status = "arrived" <=> cars[i].distance_to_dest = 0

\* C4 witness: right after a motion step in which a car arrived while
\* another car is still on its way.
C4_Witness ==
    /\ pc = "log"
    /\ \E i, j \in Rows :
          /\ cars[i].status = "arrived" /\ cars[i].ticks_traveled = tick + 1
          /\ cars[j].status = "moving" /\ cars[j].ticks_traveled > 0

\* C5 as stated: the rush-hour statement of the trigger tick makes the
\* population exactly RUSH_HOUR_EXTRA rows longer.
C5_ExactlyBatchSize ==
    [][pc = "rush" /\ RushHourDue(tick, rush_hour_tick) =>
          Len(cars') = Len(cars) + RUSH_HOUR_EXTRA]_vars

\* C5 amended: the rush-hour statement of the trigger tick makes the
\* population longer by RUSH_HOUR_EXTRA minus the number of drawn cars
\* whose start cell is their destination, hence by at most RUSH_HOUR_EXTRA.
C5_BatchSizeMinusDropped ==
    [][pc = "rush" /\ RushHourDue(tick, rush_hour_tick) =>
          /\ Len(cars') = Len(cars) + RUSH_HOUR_EXTRA - dropped'
          /\ dropped' \in 0 .. RUSH_HOUR_EXTRA]_vars

\* C5 witness: right after an injection in which a drawn car was dropped.
C5_Witness == JustInjected /\ dropped > 0

\* C6: no second batch is injected when the loop is entered again and comes
\* by the trigger tick a second time: at most RUSH_HOUR_EXTRA vehicles ever
\* join the NUM_CARS initial ones.
C6_NoSecondBatch == Len(cars) <= NUM_CARS + RUSH_HOUR_EXTRA

\* C7 as stated: a finished run whose max_ticks exceeds the trigger tick
\* has injected exactly once, whatever its vehicles did (shown for runs that
\* started with at least one vehicle).
C7_ExactlyOncePerRun ==
    (pc = "done" /\ MAX_TICKS > rush_hour_tick /\ Len(cars) > 0) =>
       rush_fired = 1

\* C7 amended: the injection has fired exactly once if the loop has reached
\* the rush-hour statement of the trigger tick and not at all before that;
\* a run whose max_ticks exceeds the trigger tick ends without an injection
\* only by the early exit, with no vehicle Moving.
C7_OnceIfTriggerReached ==
    /\ rush_fired = IF TriggerTickReached THEN 1 ELSE 0
    /\ (pc = "done" /\ MAX_TICKS > rush_hour_tick /\ rush_fired = 0) =>
          NumMoving(cars) = 0

\* C7 witness: a finished run that injected after some vehicle had arrived.
C7_Witness ==
    /\ pc = "done" /\ rush_fired = 1
    /\ \E i \in Rows :
          cars[i].status = "arrived" /\ cars[i].ticks_traveled <= rush_hour_tick

IdsDistinct ==
    \A i, j \in Rows : i # j => cars[i].car_id # cars[j].car_id

\* The rows the rush-hour statement appends carry the ids that follow the
\* largest id there was, each greater than every id there was.
InjectedIdsContinue ==
    pc = "rush" =>
       /\ \A i \in Rows : cars'[i] = cars[i]
       /\ \A j \in Len(cars) + 1 .. Len(cars') :
             /\ cars'[j].car_id = MaxCarId(cars, 1) + (j - Len(cars))
             /\ \A i \in Rows : cars'[j].car_id > cars[i].car_id

C9_EntersMovingAwayFromDestination ==
    \A i \in Rows :
       cars[i].ticks_traveled = 0 =>
          cars[i].status = "moving" /\ cars[i].distance_to_dest > 0

\* C9 witness: right after an injection, a fresh vehicle next to older ones.
C9_Witness ==
    /\ JustInjected
    /\ \E i, j \in Rows : cars[i].ticks_traveled = 0 /\ cars[j].ticks_traveled > 0

\* The cost grid of the planner query.
QueryCost == build_cost_grid(grid, congestion_map)

Neighbours(size, p) ==
    {q \in Cells(size) : Abs(q[1] - p[1]) + Abs(q[2] - p[2]) = 1}

\* Cells that can be entered from a cell of the set: a 4-neighbour with a
\* finite cost.
RECURSIVE Reachable(_, _)
Reachable(cost_grid, found) ==
    LET grown == {q \in Cells(Shape(cost_grid)) :
                     \/ q \in found
                     \/ /\ ~IsInf(At(cost_grid, q[1], q[2]))
                        /\ \E p \in found : q \in Neighbours(Shape(cost_grid), p)}
    IN  IF grown = found THEN found ELSE Reachable(cost_grid, grown)

\* A 4-connected route from start to end on which every cell entered is
\* passable.
RouteExists(cost_grid, start, end) == end \in Reachable(cost_grid, {start})

\* C10 as stated: dijkstra returns the empty path exactly when there is no
\* passable route, and in particular whenever end is a Building cell.
C10_EmptyIffNoRouteOrBuildingEnd ==
    pc = "planned" =>
       /\ q_path = <<>> <=> ~RouteExists(QueryCost, q_start, q_end)
       /\ IsInf(At(QueryCost, q_end[1], q_end[2])) => q_path = <<>>

\* C10 amended: dijkstra returns the empty path exactly when no 4-connected
\* route from start to end exists on which every cell after start is
\* passable; it is empty when end is a Building cell other than start and
\* when start differs from end and has no passable neighbour.
C10_EmptyIffNoRoute ==
    pc = "planned" =>
       /\ q_path = <<>> <=> ~RouteExists(QueryCost, q_start, q_end)
       /\ (IsInf(At(QueryCost, q_end[1], q_end[2])) /\ q_end # q_start) =>
             q_path = <<>>
       /\ ((\A n \in Neighbours(Shape(grid), q_start) :
               IsInf(At(QueryCost, n[1], n[2]))) /\ q_end # q_start) =>
             q_path = <<>>

\* C10 witness: start and end are both passable, yet Buildings separate
\* them and the answer is empty.
C10_Witness ==
    /\ pc = "planned" /\ q_path = <<>>
    /\ ~IsInf(At(QueryCost, q_start[1], q_start[2]))
    /\ ~IsInf(At(QueryCost, q_end[1], q_end[2]))

\* The sum of the cost-grid values of the cells of a path after its first.
RECURSIVE PathCost(_, _, _)
PathCost(cost_grid, path, i) ==
    IF i > Len(path) THEN 0
    ELSE FAdd(At(cost_grid, path[i][1], path[i][2]), PathCost(cost_grid, path, i + 1))

\* The least of a set of costs.
FMin(S) ==
    IF S \subseteq {np_inf} THEN np_inf
    ELSE CHOOSE m \in S \ {np_inf} : \A n \in S \ {np_inf} : m <= n

\* The cheapest entry cost of a route from the cell where d is 0 to each
\* cell: d is lowered through every 4-neighbour until nothing changes.
RECURSIVE CheapestFrom(_, _)
CheapestFrom(cost_grid, d) ==
    LET size == Shape(cost_grid)
        better == [q \in Cells(size) |->
                     FMin({d[q]} \cup
                          {FAdd(d[p], At(cost_grid, q[1], q[2])) :
                              p \in Neighbours(size, q)})]
    IN  IF better = d THEN d ELSE CheapestFrom(cost_grid, better)

\* The least total entry cost of a passable 4-connected route start -> end.
CheapestRoute(cost_grid, start, end) ==
    CheapestFrom(cost_grid,
                 [p \in Cells(Shape(cost_grid)) |->
                     IF p = start THEN 0 ELSE np_inf])[end]

\* C11: a non-empty path returned by dijkstra costs, in entry costs of the
\* cells after start, the least that any passable 4-connected route from
\* start to end costs; on the 5x5 all-Road grid without congestion the path
\* from (0,0) to (4,4) has 9 cells and costs 8.0 (16 half units).
C11_PathCostMinimal ==
    (pc = "planned" /\ q_path # <<>>) =>
       /\ PathCost(QueryCost, q_path, 2) = CheapestRoute(QueryCost, q_start, q_end)
       /\ (grid = AllRoad5 /\ q_start = <<0, 0>> /\ q_end = <<4, 4>>) =>
             Len(q_path) = 9 /\ PathCost(QueryCost, q_path, 2) = 16

\* C11 witness: a returned path with more moves than the Manhattan distance
\* that passes a congested passable cell without entering it.
C11_Witness ==
    /\ pc = "planned" /\ q_path # <<>>
    /\ Len(q_path) - 1 > Abs(q_end[1] - q_start[1]) + Abs(q_end[2] - q_start[2])
    /\ \E i \in 1 .. Len(q_path) - 1 :
          \E n \in Neighbours(Shape(grid), q_path[i]) :
             /\ At(congestion_map, n[1], n[2]) > 0
             /\ ~IsInf(At(QueryCost, n[1], n[2]))
             /\ \A j \in 1 .. Len(q_path) : q_path[j] # n

\* C12: a non-empty path returned by dijkstra starts at start, ends at end,
\* moves between 4-neighbours only, visits no cell twice, and has no
\* impassable (Building) cell after its first element.
C12_PathWellFormed ==
    (pc = "planned" /\ q_path # <<>>) =>
       /\ q_path[1] = q_start
       /\ q_path[Len(q_path)] = q_end
       /\ \A i \in 1 .. Len(q_path) - 1 :
             q_path[i + 1] \in Neighbours(Shape(grid), q_path[i])
       /\ \A i, j \in 1 .. Len(q_path) : i # j => q_path[i] # q_path[j]
       /\ \A i \in 2 .. Len(q_path) :
             /\ At(grid, q_path[i][1], q_path[i][2]) # BUILDING
             /\ ~IsInf(At(QueryCost, q_path[i][1], q_path[i][2]))

\* C12 witness: a path with a turn in it that leaves a Building start cell.
C12_Witness ==
    /\ pc = "planned" /\ Len(q_path) >= 4
    /\ At(grid, q_start[1], q_start[2]) = BUILDING
    /\ q_start[1] # q_end[1] /\ q_start[2] # q_end[2]

\* C13: on every cost grid, the path dijkstra returns from a passable cell
\* to that same cell is the one-element path holding the cell.
C13_SelfPathIsSingleton ==
    (pc = "planned" /\ q_start = q_end
       /\ ~IsInf(At(QueryCost, q_start[1], q_start[2]))) =>
       q_path = <<q_start>>

\* C13 witness: the query from a congested passable cell to itself, with a
\* passable neighbour the search could have gone to.
C13_Witness ==
    /\ pc = "planned" /\ q_start = q_end /\ q_path = <<q_start>>
    /\ At(congestion_map, q_start[1], q_start[2]) > 0
    /\ ~IsInf(At(QueryCost, q_start[1], q_start[2]))
    /\ \E n \in Neighbours(Shape(grid), q_start) : ~IsInf(At(QueryCost, n[1], n[2]))

\* C14: a vehicle put on the first cell of the path the planner cached for
\* it and moved by motion steps alone, the cache untouched, is Moving and on
\* the next cell of the path after each of the first len(path) - 2 steps,
\* and is Arrived, on its destination, after step len(path) - 1 and not
\* before.
C14_ArrivesAfterPathLength ==
    pc = "drive" =>
       \A i \in Rows :
          cars[i].car_id \in DOMAIN paths =>
             LET path == paths[cars[i].car_id]
             IN  /\ path[1] = q_start /\ path[Len(path)] = q_end
                 /\ tick < Len(path) - 1 =>
                       /\ cars[i].status = "moving"
                       /\ <<cars[i].y, cars[i].x>> = path[tick + 1]
                 /\ tick >= Len(path) - 1 =>
                       /\ cars[i].status = "arrived"
                       /\ <<cars[i].y, cars[i].x>> = q_end
                       /\ cars[i].ticks_traveled = Len(path) - 1

\* C14 witness: the vehicle has just arrived at the end of a path of five
\* or more cells that has a turn in it.
C14_Witness ==
    /\ pc = "drive" /\ Len(cars) = 1
    /\ cars[1].car_id \in DOMAIN paths
    /\ Len(paths[cars[1].car_id]) >= 5
    /\ tick = Len(paths[cars[1].car_id]) - 1
    /\ cars[1].status = "arrived"
    /\ q_start[1] # q_end[1] /\ q_start[2] # q_end[2]

\* C15: the cost grid holds, for every cell, the impassable value if the
\* cell is a Building, whatever its congestion count, and otherwise the base
\* cost of its kind (Road 1.0, Highway 0.5, TrafficLight 1.5) plus 0.5 per
\* counted vehicle; in half units 2, 1, 3 plus the count.
C15_CostGridFormula ==
    pc \in {"plan", "planned"} =>
       \A p \in Cells(Shape(grid)) :
          LET kind == At(grid, p[1], p[2])
              count == At(congestion_map, p[1], p[2])
              cost == At(QueryCost, p[1], p[2])
          IN  /\ kind = BUILDING => cost = np_inf
              /\ kind = ROAD => cost = 2 + count
              /\ kind = HIGHWAY => cost = 1 + count
              /\ kind = TRAFFIC_LIGHT => cost = 3 + count

\* C15 witness: a planned query on a grid of all four kinds whose congested
\* cell is a Building.
C15_Witness ==
    /\ pc = "planned"
    /\ \E p \in Cells(Shape(grid)) :
          At(grid, p[1], p[2]) = BUILDING /\ At(congestion_map, p[1], p[2]) > 0
    /\ \A k \in {ROAD, HIGHWAY, TRAFFIC_LIGHT} :
          \E p \in Cells(Shape(grid)) : At(grid, p[1], p[2]) = k

\* Statements left in the iteration, the statement at pc included.
PcRank ==
    CASE pc = "congestion" -> 5
      [] pc = "rush" -> 4
      [] pc = "repath" -> 3
      [] pc = "move" -> 2
      [] pc = "log" -> 1
      [] OTHER -> 0

\* An upper bound of the statements run_simulation has yet to execute.
StepsLeft == IF pc = "done" THEN 0 ELSE 5 * (MAX_TICKS - 1 - tick) + PcRank

\* The tick index is below max_ticks, and a tick after the first is only
\* entered with a vehicle Moving.
TicksInRange ==
    /\ tick \in 0 .. MAX_TICKS - 1
    /\ StepsLeft >= 0
    /\ (pc \in {"congestion", "rush"} /\ tick > 0) => NumMoving(cars) > 0

\* Every statement brings the end nearer; ticks go up by one, at the end of
\* an iteration only; the loop stops at the end of an iteration, exactly
\* when no vehicle is Moving or the tick was tick max_ticks - 1.
LoopProgress ==
    /\ StepsLeft' < StepsLeft
    /\ tick' = IF pc = "log" /\ pc' # "done" THEN tick + 1 ELSE tick
    /\ pc' = "done" <=>
          (pc = "log" /\ (NumMoving(cars) = 0 \/ tick = MAX_TICKS - 1))

\* C16: run_simulation terminates: the statements left to execute are
\* bounded and go down with every step; ticks
\* 0, 1, 2, ... are executed in order; the loop stops right after the first
\* tick that ends with no vehicle Moving, else after tick max_ticks - 1; no
\* tick follows one that ended with no vehicle Moving, and no tick index
\* reaches max_ticks.
C16_Terminates == []TicksInRange /\ [][LoopProgress]_vars

\* C16 witness: a run that stopped early, after its second tick or later
\* and after the injection, with every vehicle Arrived.
C16_Witness ==
    /\ pc = "done" /\ tick > 0 /\ tick < MAX_TICKS - 1
    /\ rush_fired = 1 /\ Len(cars) > 1 /\ NumMoving(cars) = 0

\* Ticks whose snapshot statement has been executed.
TicksLogged == IF pc = "done" THEN tick + 1 ELSE tick

\* One frame per executed tick, in tick order, every row of frame t stamped
\* with t, and no vehicle twice in a frame.
HistoryShape ==
    /\ Len(history_frames) = TicksLogged
    /\ \A k \in 1 .. Len(history_frames) :
          /\ \A i \in 1 .. Len(history_frames[k]) :
                history_frames[k][i].tick = k - 1
          /\ \A i, j \in 1 .. Len(history_frames[k]) :
                i # j => history_frames[k][i].car_id # history_frames[k][j].car_id

\* The snapshot statement of tick t adds one frame with a row for each
\* vehicle of the collection as the motion step left it, and nothing else
\* changes the history.
FrameIsPopulation ==
    IF pc = "log"
    THEN /\ Len(history_frames') = Len(history_frames) + 1
         /\ SubSeq(history_frames', 1, Len(history_frames)) = history_frames
         /\ LET frame == history_frames'[Len(history_frames')]
            IN  /\ Len(frame) = Len(cars)
                /\ \A i \in Rows :
                      /\ frame[i].car_id = cars[i].car_id
                      /\ frame[i].x = cars[i].x /\ frame[i].y = cars[i].y
                      /\ frame[i].status = cars[i].status
                      /\ frame[i].ticks_traveled = cars[i].ticks_traveled
                      /\ frame[i].distance_to_dest = cars[i].distance_to_dest
                      /\ frame[i].tick = tick
    ELSE history_frames' = history_frames

\* C17: the history holds, for every executed tick t, exactly one row for
\* each vehicle that is in the collection at the end of tick t, Moving or
\* Arrived, an injected one from its injection tick on, and no other row;
\* the row has the vehicle's position, status, ticks_traveled and
\* distance_to_dest as they are after the move of tick t.
C17_OneRowPerVehiclePerTick == []HistoryShape /\ [][FrameIsPopulation]_vars

\* C17 witness: a history of three or more frames in which the population
\* grew from one frame to the next and an Arrived vehicle was logged before
\* the growth.
C17_Witness ==
    /\ Len(history_frames) >= 3
    /\ \E k \in 1 .. Len(history_frames) - 1 :
          /\ Len(history_frames[k + 1]) > Len(history_frames[k])
          /\ \E i \in 1 .. Len(history_frames[k]) :
                history_frames[k][i].status = "arrived"

\* The cells of the set and the cells of the city that can be driven to
\* from them: 4-neighbours that are not Buildings, repeatedly.
RECURSIVE RoadsFrom(_)
RoadsFrom(found) ==
    LET grown == {q \in Cells(Shape(grid)) :
                     \/ q \in found
                     \/ /\ At(grid, q[1], q[2]) # BUILDING
                        /\ \E p \in found :
                              Abs(q[1] - p[1]) + Abs(q[2] - p[2]) = 1}
    IN  IF grown = found THEN found ELSE RoadsFrom(grown)

\* No 4-connected passable route leads from the car's cell to its
\* destination (Buildings do not move, so congestion plays no part).
Unreachable(car) == <<car.dest_y, car.dest_x>> \notin RoadsFrom({<<car.y, car.x>>})

\* A vehicle with an unreachable destination is Moving and has no cache
\* entry; a run with such a vehicle ends only after tick max_ticks - 1,
\* with a frame logged for every tick.
StalledNotFatal ==
    \A i \in Rows :
       Unreachable(cars[i]) =>
          /\ cars[i].status = "moving"
          /\ cars[i].car_id \notin DOMAIN paths
          /\ pc = "done" =>
                tick = MAX_TICKS - 1 /\ Len(history_frames) = MAX_TICKS

\* A vehicle with an unreachable destination stays where it is in every
\* step; in a motion step of a repath tick every other Moving vehicle has
\* a cache entry and changes its cell.
StalledStaysOthersMove ==
    \A i \in Rows :
       Unreachable(cars[i]) =>
          /\ i <= Len(cars')
          /\ cars'[i].x = cars[i].x /\ cars'[i].y = cars[i].y
          /\ cars'[i].car_id = cars[i].car_id
          /\ (pc = "move" /\ RepathDue(tick)) =>
                \A j \in Rows :
                   (cars[j].status = "moving" /\ ~Unreachable(cars[j])) =>
                      /\ cars[j].car_id \in DOMAIN paths
                      /\ <<cars'[j].y, cars'[j].x>> # <<cars[j].y, cars[j].x>>

\* C18: a vehicle whose destination is unreachable never has a Path Cache
\* entry, stays on its spawn cell with status Moving at every tick, and
\* does not stop the run: the other vehicles are routed and moved, and the
\* loop goes on until max_ticks is exhausted.
C18_UnreachableStallsOnly == []StalledNotFatal /\ [][StalledStaysOthersMove]_vars

\* C18 witness: a run that ended after its last tick with a vehicle that
\* never left its cell next to one that arrived.
C18_Witness ==
    /\ pc = "done" /\ tick = MAX_TICKS - 1
    /\ \E i, j \in Rows :
          /\ Unreachable(cars[i])
          /\ cars[i].ticks_traveled = MAX_TICKS
          /\ cars[j].status = "arrived" /\ cars[j].ticks_traveled > 1

\* A run that was handed no vehicle is in tick 0, with no vehicle, nothing
\* counted in the congestion map, nothing cached and nothing injected; once
\* it has ended, its history is the one empty snapshot of tick 0.
EmptyRunIsIdle ==
    entered = 0 =>
       /\ tick = 0
       /\ cars = <<>>
       /\ congestion_map = Zeros(GRID_SIZE)
       /\ paths = <<>>
       /\ rush_fired = 0
       /\ history_frames = IF pc = "done" THEN << <<>> >> ELSE <<>>

\* The snapshot statement of such a run is followed by the end of the loop.
EmptyRunStops == (entered = 0 /\ pc = "log") => pc' = "done"

\* C19: started with an empty vehicle collection, run_simulation executes
\* tick 0 without effect (congestion map all zero, path cache empty, nothing
\* moved, snapshot empty) and ends right after it on the test that no
\* vehicle is Moving.
C19_EmptyRunIsNoOp == []EmptyRunIsIdle /\ [][EmptyRunStops]_vars

\* C19 witness: a finished run that had no vehicle, with max_ticks not yet
\* exhausted.
C19_Witness ==
    /\ pc = "done" /\ entered = 0 /\ cars = <<>>
    /\ history_frames = << <<>> >>
    /\ tick < MAX_TICKS - 1

\* Rows appended by the injection of the tick being executed.
InjectedNow ==
    IF pc \in {"repath", "move"} /\ tick = rush_hour_tick
    THEN RUSH_HOUR_EXTRA - dropped ELSE 0

\* From the congestion build to the motion step the congestion map counts,
\* for every cell, the Moving vehicles that stood on it when the tick began:
\* the rows there were before the injection, at the positions they have
\* before the move.
CongestionFromTickStart ==
    pc \in {"rush", "repath", "move"} =>
       \A p \in Cells(GRID_SIZE) :
          At(congestion_map, p[1], p[2]) =
             Cardinality({i \in 1 .. Len(cars) - InjectedNow :
                             /\ cars[i].status = "moving"
                             /\ <<cars[i].y, cars[i].x>> = p})

\* The statements of a tick follow each other in the order congestion
\* build, injection, repath, motion, snapshot, termination check, and each
\* leaves alone what the others produced.
TickOrder ==
    /\ pc = "congestion" => pc' = "rush" /\ cars' = cars /\ paths' = paths
    /\ pc = "rush" =>
          pc' = "repath" /\ congestion_map' = congestion_map /\ paths' = paths
    /\ pc = "repath" =>
          pc' = "move" /\ congestion_map' = congestion_map /\ cars' = cars
    /\ pc = "move" =>
          pc' = "log" /\ congestion_map' = congestion_map /\ paths' = paths
    /\ pc = "log" =>
          /\ pc' \in {"congestion", "done"}
          /\ congestion_map' = congestion_map /\ paths' = paths /\ cars' = cars
          /\ Len(history_frames') = Len(history_frames) + 1
    /\ pc # "log" => history_frames' = history_frames /\ tick' = tick

\* C20: within a tick run_simulation builds the congestion map, injects,
\* repaths, moves, takes the snapshot and tests for termination, in this
\* order; the congestion map the repath of the tick uses counts the vehicles
\* where they stood at the start of the tick, before the moves of the tick
\* and without the vehicles injected in the tick.
C20_TickOrder == []CongestionFromTickStart /\ [][TickOrder]_vars

\* C20 witness: a repath about to use a congestion map that lacks the
\* vehicle injected a statement earlier.
C20_Witness ==
    /\ pc = "repath" /\ RepathDue(tick) /\ JustInjected /\ InjectedNow > 0
    /\ NumMoving(SubSeq(cars, 1, Len(cars) - InjectedNow)) > 0
    /\ congestion_map # build_congestion_map(cars, GRID_SIZE)

\* The tick in which the cache of the current tick was computed.
CacheTick == tick - (tick % REPATH_EVERY)

\* The row of the vehicle with the given id.
RowOf(id) == CHOOSE i \in Rows : cars[i].car_id = id

\* The cache the motion step of tick t consumes is the one of tick
\* t - (t mod repath_interval): each of its paths begins on the cell its
\* vehicle stood on at the start of that tick, so its second cell is where
\* the snapshot of that tick recorded the vehicle.
CacheComputedAtCacheTick ==
    pc \in {"move", "log"} =>
       /\ tick - CacheTick \in 0 .. REPATH_EVERY - 1
       /\ \A id \in DOMAIN paths :
             LET path == paths[id]
                 i == RowOf(id)
             IN  /\ \E j \in Rows : cars[j].car_id = id
                 /\ Len(path) >= 2
                 /\ (CacheTick = tick /\ pc = "move") =>
                       path[1] = <<cars[i].y, cars[i].x>>
                 /\ (CacheTick = tick /\ pc = "log") =>
                       path[2] = <<cars[i].y, cars[i].x>>
                 /\ CacheTick < tick =>
                       path[2] = <<history_frames[CacheTick + 1][i].y,
                                   history_frames[CacheTick + 1][i].x>>

\* The repath statement of a tick t with t mod repath_interval = 0 leaves a
\* cache whose every entry belongs to a vehicle that is Moving and starts
\* on that vehicle's cell; no other statement of any tick changes the cache.
CacheReplacedOnRepathTicks ==
    IF pc = "repath" /\ tick % REPATH_EVERY = 0
    THEN \A id \in DOMAIN paths' :
            \E i \in Rows :
               /\ cars[i].car_id = id /\ cars[i].status = "moving"
               /\ paths'[id][1] = <<cars[i].y, cars[i].x>>
    ELSE paths' = paths

CacheKeysAfterRepath ==
    (pc = "move" /\ tick % REPATH_EVERY = 0) =>
       /\ DOMAIN paths =
             {cars[i].car_id : i \in {j \in Rows :
                 cars[j].status = "moving" /\ ~Unreachable(cars[j])}}
       /\ \A i \in Rows :
             cars[i].car_id \in DOMAIN paths =>
                LET path == paths[cars[i].car_id]
                IN  /\ path[1] = <<cars[i].y, cars[i].x>>
                    /\ path[Len(path)] = <<cars[i].dest_y, cars[i].dest_x>>

\* Between two cycles no entry leaves the cache, and a motion step does
\* nothing to an Arrived vehicle, with or without an entry.
CacheKeptBetweenCycles ==
    /\ ~(pc = "repath" /\ tick % REPATH_EVERY = 0) => DOMAIN paths' = DOMAIN paths
    /\ pc = "move" =>
          \A i \in Rows : cars[i].status = "arrived" => cars'[i] = cars[i]

Uncached(car) == car.status = "moving" /\ car.car_id \notin DOMAIN paths

\* C23 as stated: a motion step leaves a Moving vehicle without a cache
\* entry as it was: position, distance_to_dest, status and ticks_traveled.
C23_StalledUnchanged ==
    [][pc = "move" =>
          \A i \in Rows : Uncached(cars[i]) => cars'[i] = cars[i]]_vars

\* C23 amended: a motion step leaves the position, the distance_to_dest and
\* the status of a Moving vehicle without a cache entry as they were and
\* adds one to its ticks_traveled.
C23_StalledCountsTick ==
    [][pc = "move" =>
          \A i \in Rows :
             Uncached(cars[i]) =>
                /\ cars'[i].x = cars[i].x /\ cars'[i].y = cars[i].y
                /\ cars'[i].distance_to_dest = cars[i].distance_to_dest
                /\ cars'[i].status = "moving"
                /\ cars'[i].ticks_traveled = cars[i].ticks_traveled + 1
                /\ cars'[i] = [cars[i] EXCEPT !.ticks_traveled = @ + 1]]_vars

\* C23 witness: after a motion step, a vehicle injected between two cycles
\* that could reach its destination but had no entry yet, next to a vehicle
\* that was moved.
C23_Witness ==
    /\ pc = "log"
    /\ \E i, j \in Rows :
          /\ Uncached(cars[i]) /\ ~Unreachable(cars[i])
          /\ cars[i].ticks_traveled = 1
          /\ cars[j].car_id \in DOMAIN paths /\ cars[j].ticks_traveled = tick + 1

\* Indices of the cached path, short of the last, that hold the position
\* the vehicle had before the step.
Occurrences == {i \in 1 .. Len(q_path) - 1 : q_path[i] = q_start}

\* The least of a non-empty set of indices.
Least(S) == CHOOSE i \in S : \A j \in S : i <= j

\* C24: in a motion step a Moving vehicle whose cached path has two or more
\* cells goes to the entry that follows the first occurrence of its
\* position in the path; if its position is nowhere in the path it goes to
\* index 1 of the path, the second waypoint, adjacent or not.
C24_NextEntryOrSecondWaypoint ==
    (pc = "stepped" /\ Len(q_path) >= 2) =>
       /\ Occurrences # {} =>
             <<cars[1].y, cars[1].x>> = q_path[Least(Occurrences) + 1]
       /\ (\A i \in 1 .. Len(q_path) : q_path[i] # q_start) =>
             <<cars[1].y, cars[1].x>> = q_path[2]

\* C24 witness: the vehicle was not on its path and has jumped to the
\* second waypoint, which is not a 4-neighbour of the cell it left.
C24_Witness ==
    /\ pc = "stepped" /\ Len(q_path) >= 2
    /\ \A i \in 1 .. Len(q_path) : q_path[i] # q_start
    /\ <<cars[1].y, cars[1].x>> = q_path[2]
    /\ Abs(q_path[2][1] - q_start[1]) + Abs(q_path[2][2] - q_start[2]) = 2

\* The rows of the collection in the opposite order.
Reversed(cs) == [i \in 1 .. Len(cs) |-> cs[Len(cs) + 1 - i]]

\* In a motion step the new cell of every Moving vehicle is the next step
\* of its own cached path from its own cell, or its own cell if it has no
\* entry, whatever cells the other vehicles are on or go to; the same rows
\* result from processing the collection in the opposite order.
OwnPathOnly ==
    pc = "move" =>
       /\ Len(cars') = Len(cars)
       /\ \A i \in Rows :
             cars[i].status = "moving" =>
                <<cars'[i].y, cars'[i].x>> =
                   IF cars[i].car_id \in DOMAIN paths
                   THEN get_next_step(paths[cars[i].car_id], <<cars[i].y, cars[i].x>>)
                   ELSE <<cars[i].y, cars[i].x>>
       /\ cars' = Reversed(move_cars_with_paths(Reversed(cars), paths, grid))

FrameBefore == history_frames[tick]

RECURSIVE SumFrom(_, _)
SumFrom(s, i) == IF i > Len(s) THEN 0 ELSE s[i] + SumFrom(s, i + 1)

\* The sum of the entries of a map.
MapTotal(map) == SumFrom([i \in 1 .. Len(map) |-> SumFrom(map[i], 1)], 1)

\* The map just built holds for each cell the number of Moving vehicles on
\* it, one for each of several on the same cell and none for an Arrived
\* one, whatever the map of the tick before held; its total is the number
\* of Moving vehicles.
CongestionCountsMoving ==
    pc = "rush" =>
       /\ \A p \in Cells(GRID_SIZE) :
             At(congestion_map, p[1], p[2]) =
                Cardinality({i \in Rows : /\ cars[i].status = "moving"
                                          /\ cars[i].y = p[1]
                                          /\ cars[i].x = p[2]})
       /\ MapTotal(congestion_map) = NumMoving(cars)

\* Building the map leaves the vehicle collection as it was.
CongestionLeavesCars == pc = "congestion" => cars' = cars

\* C26: build_congestion_map returns for each cell the number of vehicles
\* with status Moving on that cell: vehicles on the same cell are all
\* counted, Arrived vehicles count for nothing, the sum over the cells is
\* the number of Moving vehicles, nothing is carried over from earlier
\* ticks, and the vehicle collection is not modified.
C26_CongestionCountsMoving ==
    []CongestionCountsMoving /\ [][CongestionLeavesCars]_vars

\* C26 witness: a map built in a later tick with two Moving vehicles counted
\* on one cell and an Arrived vehicle on a cell that counts nobody, one that
\* held a vehicle in the map of tick 0.
C26_Witness ==
    /\ pc = "rush" /\ tick > 0
    /\ \E p \in Cells(GRID_SIZE) : At(congestion_map, p[1], p[2]) >= 2
    /\ \E k \in Rows :
          /\ cars[k].status = "arrived"
          /\ At(congestion_map, cars[k].y, cars[k].x) = 0
          /\ history_frames[1][k].local_congestion > 0

\* Moving rows of a frame on the given cell.
MovingOn(frame, y, x) ==
    Cardinality({j \in 1 .. Len(frame) :
                    /\ frame[j].status = "moving"
                    /\ frame[j].y = y /\ frame[j].x = x})

\* In the frame of a tick t > 0 the congestion value of a row is the number
\* of vehicles that were Moving on the row's cell at the end of tick t - 1,
\* that is, at the start of tick t before the injection and the move.
LoggedCongestionIsFromTickStart ==
    \A k \in 2 .. Len(history_frames) :
       \A i \in 1 .. Len(history_frames[k]) :
          history_frames[k][i].local_congestion =
             MovingOn(history_frames[k - 1],
                      history_frames[k][i].y, history_frames[k][i].x)

\* The snapshot statement reads the map built at the start of the tick at
\* the cell the vehicle is on after the move.
LoggedCongestionIsMapValue ==
    pc = "log" =>
       \A i \in Rows :
          history_frames'[Len(history_frames')][i].local_congestion =
             At(congestion_map, cars[i].y, cars[i].x)

\* C27: the congestion value in a vehicle's snapshot row for tick t is the
\* value of the congestion map built at the start of tick t, from the
\* positions before the move and before the injection, read at the cell the
\* vehicle occupies after the move of tick t; it is not counted again from
\* the positions after the move.
C27_SnapshotCongestionPreMove ==
    []LoggedCongestionIsFromTickStart /\ [][LoggedCongestionIsMapValue]_vars

\* C27 witness: a logged row of a tick after tick 0 whose congestion value
\* differs from the number of Moving vehicles on its cell in the same frame.
C27_Witness ==
    \E k \in 2 .. Len(history_frames) :
       \E i \in 1 .. Len(history_frames[k]) :
          /\ history_frames[k][i].local_congestion > 0
          /\ history_frames[k][i].local_congestion #
                MovingOn(history_frames[k], history_frames[k][i].y,
                         history_frames[k][i].x)

\* Ticks since the last repathing cycle.
CacheAge == tick % REPATH_EVERY

\* Two cells are 4-neighbours.
Adjacent(p, q) == Abs(p[1] - q[1]) + Abs(p[2] - q[2]) = 1

\* At the start of a motion step a Moving vehicle with a cache entry stands
\* on the cell of its path that is as many cells from the first as ticks
\* have passed since the cycle, and that is not the last.
OnCachedPath ==
    pc = "move" =>
       \A i \in Rows :
          (cars[i].status = "moving" /\ cars[i].car_id \in DOMAIN paths) =>
             LET path == paths[cars[i].car_id]
             IN  /\ CacheAge + 1 < Len(path)
                 /\ path[CacheAge + 1] = <<cars[i].y, cars[i].x>>

\* A motion step takes a Moving vehicle with a cache entry one cell on
\* along its path, to a 4-neighbour, found by the search for its position
\* and not by the fallback; in no step does any vehicle go farther than to
\* a 4-neighbour.
AdvancesOneCell ==
    /\ pc = "move" =>
          \A i \in Rows :
             (cars[i].status = "moving" /\ cars[i].car_id \in DOMAIN paths) =>
                LET path == paths[cars[i].car_id]
                IN  /\ FirstIndex(path, <<cars[i].y, cars[i].x>>, 1) = CacheAge + 1
                    /\ <<cars'[i].y, cars'[i].x>> = path[CacheAge + 2]
                    /\ Adjacent(<<cars'[i].y, cars'[i].x>>, <<cars[i].y, cars[i].x>>)
    /\ \A i \in Rows :
          \/ <<cars'[i].y, cars'[i].x>> = <<cars[i].y, cars[i].x>>
          \/ /\ pc = "move"
             /\ Adjacent(<<cars'[i].y, cars'[i].x>>, <<cars[i].y, cars[i].x>>)

\* C28: in run_simulation, at the start of every motion step each Moving
\* vehicle that has a cache entry stands on the cell path[k] of its cached
\* path, k being the number of ticks since the last repathing cycle, and
\* that cell is not the last of the path; so the index-1 fallback is never
\* taken and the vehicle advances one cell, to a 4-neighbour, in every
\* tick; no vehicle moves by more than one 4-neighbour step in a tick.
C28_AlwaysOnCachedPath == []OnCachedPath /\ [][AdvancesOneCell]_vars

\* C28 witness: after a motion step that used a cache from an earlier tick,
\* a vehicle stands one cell further along its path.
C28_Witness ==
    /\ pc = "log" /\ CacheAge > 0
    /\ \E i \in Rows :
          /\ cars[i].car_id \in DOMAIN paths
          /\ cars[i].ticks_traveled = CacheAge + 1
          /\ Len(paths[cars[i].car_id]) >= CacheAge + 2
          /\ <<cars[i].y, cars[i].x>> = paths[cars[i].car_id][CacheAge + 2]

\* C29: vehicles being spawned on cells that are not Buildings, every
\* vehicle, Moving or Arrived, is inside the grid and on a cell that is not
\* a Building at the end of every tick (and at every statement of it).
C29_NeverOnBuilding ==
    \A i \in Rows :
       /\ <<cars[i].y, cars[i].x>> \in Cells(GRID_SIZE)
       /\ At(grid, cars[i].y, cars[i].x) # BUILDING

\* C29 witness: at the end of a tick, a vehicle that has made two or more
\* moves has turned a corner (neither the row nor the column of the first
\* cell of its path is left) and stands beside a Building.
C29_Witness ==
    /\ pc = "log"
    /\ \E i \in Rows :
          /\ cars[i].ticks_traveled >= 2
          /\ cars[i].car_id \in DOMAIN paths
          /\ paths[cars[i].car_id][1] # <<cars[i].y, cars[i].x>>
          /\ paths[cars[i].car_id][1][1] # cars[i].y
          /\ paths[cars[i].car_id][1][2] # cars[i].x
          /\ \E n \in Neighbours(GRID_SIZE, <<cars[i].y, cars[i].x>>) :
                At(grid, n[1], n[2]) = BUILDING

\* Motion steps executed so far.
StepsDone == IF pc \in {"log", "done"} THEN tick + 1 ELSE tick

\* Rows that came in by the injection.
IsInjected(i) ==
    rush_fired = 1 /\ i > Len(cars) - (RUSH_HOUR_EXTRA - dropped)

\* The tick in which the vehicle of row i entered.
EntryTick(i) == IF IsInjected(i) THEN rush_hour_tick ELSE 0

\* Frames in which row i is logged as Arrived.
ArrivedFrames(i) ==
    {k \in 1 .. Len(history_frames) :
        i <= Len(history_frames[k]) /\ history_frames[k][i].status = "arrived"}

\* The tick in whose motion step the Arrived vehicle of row i arrived.
ArrivalTick(i) ==
    IF ArrivedFrames(i) = {} THEN tick ELSE Least(ArrivedFrames(i)) - 1

\* C30: the ticks_traveled of a vehicle is the number of motion steps that
\* began with the vehicle Moving, stalled steps included: t - s + 1 at the
\* end of tick t for a vehicle that entered at tick s and is still Moving,
\* and the unchanging (arrival tick - s + 1) once it is Arrived.
C30_TicksTraveledCountsSteps ==
    \A i \in Rows :
       /\ cars[i].status = "moving" =>
             cars[i].ticks_traveled = StepsDone - EntryTick(i)
       /\ cars[i].status = "arrived" =>
             cars[i].ticks_traveled = ArrivalTick(i) - EntryTick(i) + 1

\* C30 witness: at the end of a tick, an injected vehicle that stalled
\* before it was routed and has arrived since, a vehicle that arrived ticks
\* ago, and a vehicle still Moving.
C30_Witness ==
    /\ pc = "log"
    /\ \E i, j, k \in Rows :
          /\ IsInjected(i) /\ cars[i].status = "arrived"
          /\ rush_hour_tick % REPATH_EVERY # 0
          /\ cars[i].ticks_traveled >= 2
          /\ ~IsInjected(j) /\ cars[j].status = "arrived"
          /\ cars[j].ticks_traveled < tick
          /\ cars[k].status = "moving" /\ cars[k].ticks_traveled > 0

\* RUSH_HOUR_TICKS[0] and REPATH_EVERY as shipped.
RUSH_HOUR_TICKS_shipped == 20
REPATH_EVERY_shipped == 5

\* The first tick from t on that is a repath tick.
NextRepathTick(t) == t + ((REPATH_EVERY - (t % REPATH_EVERY)) % REPATH_EVERY)

\* The injected vehicle of row i has not yet been through a repathing cycle.
Waiting(i) ==
    /\ IsInjected(i)
    /\ \/ tick < NextRepathTick(rush_hour_tick)
       \/ tick = NextRepathTick(rush_hour_tick) /\ pc = "repath"

\* The injected vehicle of row i has just been through its first cycle.
FirstRouted(i) ==
    /\ IsInjected(i)
    /\ tick = NextRepathTick(rush_hour_tick) /\ pc = "move"

\* An injected vehicle is Moving without a cache entry until the repath of
\* the first repath tick from its injection tick on, and has an entry right
\* after that repath if its destination is reachable; the shipped trigger
\* tick is a repath tick.
InjectedWaitsForRepath ==
    /\ RUSH_HOUR_TICKS_shipped % REPATH_EVERY_shipped = 0
    /\ \A i \in Rows :
          /\ Waiting(i) =>
                /\ cars[i].status = "moving"
                /\ cars[i].car_id \notin DOMAIN paths
                /\ cars[i].ticks_traveled = StepsDone - rush_hour_tick
          /\ (FirstRouted(i) /\ ~Unreachable(cars[i])) =>
                /\ cars[i].car_id \in DOMAIN paths
                /\ cars[i].ticks_traveled = StepsDone - rush_hour_tick

\* An injected vehicle stays on its spawn cell while it waits and makes its
\* first move in the motion step that follows its first cycle: in the
\* injection tick itself if that is a repath tick.
InjectedFirstMove ==
    \A i \in Rows :
       /\ Waiting(i) =>
             <<cars'[i].y, cars'[i].x>> = <<cars[i].y, cars[i].x>>
       /\ (FirstRouted(i) /\ ~Unreachable(cars[i])) =>
             /\ <<cars'[i].y, cars'[i].x>> # <<cars[i].y, cars[i].x>>
             /\ rush_hour_tick % REPATH_EVERY = 0 =>
                   tick = rush_hour_tick /\ cars'[i].ticks_traveled = 1

\* C31: a vehicle injected at tick t has no Path Cache entry and stays on
\* its spawn cell until the first tick t' >= t with
\* t' mod repath_interval = 0; the injection preceding the repath within a
\* tick, t' = t when t is a repath tick, as it is with the shipped constants
\* (20 and 5), and every injected vehicle with a reachable destination is
\* then routed and makes its first move in the injection tick itself.
C31_InjectedRoutedAtNextRepath ==
    []InjectedWaitsForRepath /\ [][InjectedFirstMove]_vars

\* C31 witness: at the end of an injection tick that is a repath tick, an
\* injected vehicle stands on the second cell of its path after one move,
\* still short of its destination.
C31_Witness ==
    /\ pc = "log" /\ tick = rush_hour_tick /\ rush_hour_tick % REPATH_EVERY = 0
    /\ \E i \in Rows :
          /\ IsInjected(i) /\ cars[i].status = "moving"
          /\ cars[i].ticks_traveled = 1
          /\ cars[i].car_id \in DOMAIN paths
          /\ <<cars[i].y, cars[i].x>> = paths[cars[i].car_id][2]

\* Rows of the vehicles that entered at tick 0.
FirstRows ==
    IF rush_fired = 1 THEN Len(cars) - (RUSH_HOUR_EXTRA - dropped) ELSE Len(cars)

\* The vehicles of the ring as create_cars handed them over.
Started == create_cars(grid, PlatoonDraws(FirstRows \div 2))

\* No injected vehicle was Moving at the start of a tick: none was counted
\* in a congestion map, so the others moved as they do without injection.
InjectedNeverCounted ==
    \A k \in 1 .. Len(history_frames) :
       \A i \in 1 .. Len(history_frames[k]) :
          i > FirstRows => history_frames[k][i].status = "arrived"

\* Every vehicle of tick 0 is Moving on the cell it started from.
BackWhereStarted ==
    \A i \in 1 .. FirstRows :
       /\ cars[i].status = "moving"
       /\ <<cars[i].y, cars[i].x>> = <<Started[i].y, Started[i].x>>
       /\ <<cars[i].dest_y, cars[i].dest_x>> = <<Started[i].dest_y, Started[i].dest_x>>
       /\ ~Unreachable(cars[i])

\* The run stopped by max_ticks where it began: the next tick would be a
\* repath tick as tick 0 was, the trigger tick is behind, and the loop body
\* depends on nothing else than the Moving vehicles' cells and
\* destinations, so a longer run repeats these ticks without end.
CaughtInCycle ==
    /\ pc = "done"
    /\ rush_fired = 1
    /\ RepathDue(tick + 1)
    /\ FirstRows > 0
    /\ InjectedNeverCounted
    /\ BackWhereStarted

\* C32: with max_ticks large enough every vehicle whose destination is
\* reachable from its spawn cell becomes Arrived, whatever the other
\* vehicles do: repathing against their congestion never leads the
\* vehicles with reachable destinations back, all still Moving, to the
\* cells they started from at a tick from which the loop repeats itself.
C32_ReachableVehiclesArrive == ~CaughtInCycle

====
